---- MODULE Spec2Model ----
(***************************************************************************)
(* Model of the user-management / task-tracking service.                   *)
(*                                                                         *)
(*   users, tasks   the two database tables (user_service.models.User,     *)
(*                  task_service.models.Task), as functions from primary   *)
(*                  key to row                                             *)
(*   clock          the wall clock read by timezone.now()                  *)
(*   pc, now, todo, cur, missed_count                                      *)
(*                  the local state of each run of the management command  *)
(*                  check_overdue_tasks (Command.handle)                   *)
(*   mail           every call of send_mail, in order                      *)
(*   stdout         what each run wrote with self.stdout.write             *)
(*   stderr         the exception that ended each run, if one did          *)
(*   atStart, after, counted, wrote                                        *)
(*                  history of the runs: the users table a run started     *)
(*                  from, the runs that had ended when it started, the     *)
(*                  count it computed for each user, the rows it saved     *)
(*   seq            the auto-increment counters of the two tables          *)
(*   resp, reqs     the last HTTP response and the number of HTTP          *)
(*                  requests served                                        *)
(***************************************************************************)
EXTENDS Integers, Sequences, FiniteSets, TLC

VARIABLES users, tasks, clock, pc, now, todo, cur, missed_count,
          mail, stdout, stderr, atStart, after, counted, wrote,
          seq, resp, reqs

vars == <<users, tasks, clock, pc, now, todo, cur, missed_count,
          mail, stdout, stderr, atStart, after, counted, wrote,
          seq, resp, reqs>>

jobvars == <<pc, now, todo, cur, missed_count, mail, stdout, stderr,
             atStart, after, counted, wrote>>

httpvars == <<seq, resp, reqs>>

(* ------------------------------ bounds -------------------------------- *)

MaxUsers == 2
MaxTime == 2
MaxCompleted == 3
MaxRequests == 2

(* ------------------------- program constants -------------------------- *)

\* check_overdue_tasks.py: "if missed_count >= 5"
Threshold == 5

Roles == {"admin", "manager", "user"}

Statuses == {"assigned", "completed"}

UserIds == 1..MaxUsers

\* the two runs of the command the claims speak of, numbered in the order
\* they start
Runs == {1, 2}

Times == 0..MaxTime

NoRow == [pk |-> 0]

(* --------------------------- the two tables --------------------------- *)

\* A row of table "users": User(AbstractUser) with role, missed_tasks, is_active.
UserRow(name, role, active) ==
    [username |-> name, role |-> role, is_active |-> active, missed_tasks |-> 0]

\* A row of table "task": Task with assigned_to, deadline, status
\* (name and description are free text no code path reads).
TaskRow(u, deadline, status) ==
    [assigned_to |-> u, deadline |-> deadline, status |-> status]

\* A model instance as the ORM loads it: the row together with its pk.
Instance(table, pk) ==
    [pk |-> pk, username |-> table[pk].username, role |-> table[pk].role,
     is_active |-> table[pk].is_active, missed_tasks |-> table[pk].missed_tasks]

\* Model.save() without update_fields: UPDATE of every column of the row with
\* this pk, and an INSERT of the row when the UPDATE matched nothing.
Save(table, obj) ==
    [u \in DOMAIN table \cup {obj.pk} |->
        IF u = obj.pk
        THEN [username |-> obj.username, role |-> obj.role,
              is_active |-> obj.is_active, missed_tasks |-> obj.missed_tasks]
        ELSE table[u]]

(* ---------------- check_overdue_tasks: Command.handle ------------------ *)

ActiveUsersAnyState(table) ==
    {Instance(table, u) : u \in {v \in DOMAIN table : table[v].role = "user"}}

\* User.objects.filter(role="user", is_active=True): the instances the
\* queryset yields when the for loop evaluates it.
ActiveUsers(table) ==
    {Instance(table, u) : u \in {v \in DOMAIN table :
        table[v].role = "user" /\ table[v].is_active = TRUE}}

\* Task.objects.filter(assigned_to=user, status="assigned", deadline__lt=now)
MissedTasks(table, u, t) ==
    {k \in DOMAIN table : /\ table[k].assigned_to = u
                          /\ table[k].status = "assigned"
                          /\ table[k].deadline < t}

\* the condition of both if statements (lines 53 and 63)
MissedTooManyEarly(n) == n >= Threshold - 1

MissedTooMany(n) == n >= Threshold

\* the time the overdue filter of a run compares deadlines with: the value
\* bound to `now` once, before the loop
ReferenceTimeClock(r) == clock

ReferenceTime(r) == now[r]

\* lines 45-47: now = timezone.now(); the queryset is evaluated when the loop
\* starts.  The order of the rows is the database's; the loop below takes
\* the remaining rows in any order.
JobStart(r) ==
    /\ pc[r] = "idle"
    /\ now' = [now EXCEPT ![r] = clock]
    /\ todo' = [todo EXCEPT ![r] = ActiveUsers(users)]
    /\ pc' = [pc EXCEPT ![r] = "loop"]
    /\ atStart' = [atStart EXCEPT ![r] = users]
    /\ after' = [after EXCEPT ![r] = {q \in Runs : pc[q] \in {"done", "aborted"}}]
    /\ UNCHANGED <<users, tasks, clock, cur, missed_count, mail, stdout,
                   stderr, counted, wrote, httpvars>>

\* lines 47-53: the next user of the loop, the count query, the first test
JobCount(r) ==
    /\ pc[r] = "loop"
    /\ \E user \in todo[r] :
        LET n == Cardinality(MissedTasks(tasks, user.pk, ReferenceTime(r))) IN
        /\ todo' = [todo EXCEPT ![r] = @ \ {user}]
        /\ cur' = [cur EXCEPT ![r] = user]
        /\ missed_count' = [missed_count EXCEPT ![r] = n]
        /\ counted' = [counted EXCEPT ![r] = (user.pk :> n) @@ @]
        /\ pc' = [pc EXCEPT ![r] = IF MissedTooMany(n) THEN "send" ELSE "loop"]
    /\ UNCHANGED <<users, tasks, clock, now, mail, stdout, stderr, atStart,
                   after, wrote, httpvars>>

\* what becomes of the run when send_mail raises: handle has no try/except,
\* the exception leaves the loop and the command
AfterSendError == "aborted"

\* lines 54-61: send_mail(...) with fail_silently left False: it returns, or
\* it raises
JobSend(r) ==
    /\ pc[r] = "send"
    /\ \E ok \in BOOLEAN :
        /\ mail' = [mail EXCEPT ![r] = Append(@,
               [user |-> cur[r].username, missed |-> missed_count[r],
                delivered |-> ok])]
        /\ pc' = [pc EXCEPT ![r] = IF ok THEN "save" ELSE AfterSendError]
        /\ stderr' = [stderr EXCEPT ![r] =
               IF ok THEN @ ELSE Append(@, <<"send_mail", cur[r].pk>>)]
    /\ UNCHANGED <<users, tasks, clock, now, todo, cur, missed_count, stdout,
                   atStart, after, counted, wrote, httpvars>>

\* the instance the job saves: user.is_active = False on the loaded instance
DeactivatedKeep(obj) == obj

DeactivatedAndCounted(obj) ==
    [obj EXCEPT !.is_active = FALSE, !.missed_tasks = @ + 1]

Deactivated(obj) == [obj EXCEPT !.is_active = FALSE]

AfterSaveError == "aborted"

\* lines 63-70: the second test (the same condition), user.save(), the
\* "Deactivated ..." line.  save() commits, or it raises and nothing is
\* written
JobSave(r) ==
    /\ pc[r] = "save"
    /\ \E ok \in BOOLEAN :
        IF ok /\ MissedTooMany(missed_count[r])
        THEN /\ users' = Save(users, Deactivated(cur[r]))
             /\ wrote' = [wrote EXCEPT ![r] = @ \cup {cur[r].pk}]
             /\ stdout' = [stdout EXCEPT ![r] = Append(@,
                    <<"Deactivated", cur[r].username, missed_count[r]>>)]
             /\ pc' = [pc EXCEPT ![r] = "loop"]
             /\ UNCHANGED stderr
        ELSE /\ pc' = [pc EXCEPT ![r] =
                    IF MissedTooMany(missed_count[r]) THEN AfterSaveError ELSE "loop"]
             /\ stderr' = [stderr EXCEPT ![r] =
                    IF MissedTooMany(missed_count[r])
                    THEN Append(@, <<"save", cur[r].pk>>) ELSE @]
             /\ UNCHANGED <<users, wrote, stdout>>
    /\ UNCHANGED <<tasks, clock, now, todo, cur, missed_count, mail,
                   atStart, after, counted, httpvars>>

\* line 72: the loop is over, "Overdue task check completed."
JobFinish(r) ==
    /\ pc[r] = "loop"
    /\ todo[r] = {}
    /\ stdout' = [stdout EXCEPT ![r] = Append(@, <<"completed">>)]
    /\ pc' = [pc EXCEPT ![r] = "done"]
    /\ UNCHANGED <<users, tasks, clock, now, todo, cur, missed_count, mail,
                   stderr, atStart, after, counted, wrote, httpvars>>

\* time passes
Tick ==
    /\ clock < MaxTime
    /\ clock' = clock + 1
    /\ UNCHANGED <<users, tasks, jobvars, httpvars>>

(* ------------------- the databases a run may start from ---------------- *)

Rep(n, row) == [i \in 1..n |-> row]

\* the tasks of user u in a seeded database: a overdue and open, late open
\* and due at time 1, c overdue and completed
TasksOf(u, a, late, c) ==
    Rep(a, TaskRow(u, 0, "assigned")) \o Rep(late, TaskRow(u, 1, "assigned"))
        \o Rep(c, TaskRow(u, 0, "completed"))

RECURSIVE AllTasks(_, _)
AllTasks(profile, n) ==
    IF n = 0 THEN <<>>
    ELSE AllTasks(profile, n - 1)
            \o TasksOf(n, profile[n].a, profile[n].late, profile[n].c)

\* what the tasks of a user the job selects may be: none; one short of the
\* threshold overdue, one more due at time 1 and some overdue but completed;
\* the threshold overdue
Profiles ==
    {[a |-> 0, late |-> 0, c |-> 0],
     [a |-> Threshold - 1, late |-> 1, c |-> MaxCompleted],
     [a |-> Threshold, late |-> 0, c |-> 0]}

\* what the tasks of a user the job does not select may be: overdue open
\* tasks up to the threshold
IdleProfiles ==
    {[a |-> Threshold, late |-> 0, c |-> 0]}

JobIdle ==
    /\ pc = [r \in Runs |-> "idle"]
    /\ now = [r \in Runs |-> 0]
    /\ todo = [r \in Runs |-> {}]
    /\ cur = [r \in Runs |-> NoRow]
    /\ missed_count = [r \in Runs |-> 0]
    /\ mail = [r \in Runs |-> <<>>]
    /\ stdout = [r \in Runs |-> <<>>]
    /\ stderr = [r \in Runs |-> <<>>]
    /\ atStart = [r \in Runs |-> <<>>]
    /\ after = [r \in Runs |-> {}]
    /\ counted = [r \in Runs |-> <<>>]
    /\ wrote = [r \in Runs |-> {}]

HttpIdle ==
    /\ resp = [op |-> "none", status |-> 0]
    /\ reqs = 0

\* A database with every user registered, in any role, active or not, and
\* tasks assigned before time 1; the clock stands at 1.
InitJob ==
    /\ clock = 1
    /\ \E role \in [UserIds -> Roles], active \in [UserIds -> BOOLEAN],
          profile \in [UserIds -> Profiles] :
        /\ \A u \in UserIds :
              (role[u] # "user" \/ ~active[u]) => profile[u] \in IdleProfiles
        /\ users = [u \in UserIds |-> UserRow(u, role[u], active[u])]
        /\ tasks = AllTasks(profile, MaxUsers)
        /\ seq = [user |-> MaxUsers, task |-> Len(AllTasks(profile, MaxUsers))]
    /\ JobIdle
    /\ HttpIdle

InProgress(r) == pc[r] \in {"loop", "send", "save"}

Ended(r) == pc[r] \in {"done", "aborted"}

\* the scheduler starts a run when no other run is in progress; the runs are
\* numbered in the order they start
Quiet == \A q \in Runs : ~InProgress(q)

\* runs one after the other
NextJob ==
    \/ Tick
    \/ \E r \in Runs : Quiet /\ (\A q \in 1..(r - 1) : pc[q] # "idle") /\ JobStart(r)
    \/ \E r \in Runs : JobCount(r)
    \/ \E r \in Runs : JobSend(r)
    \/ \E r \in Runs : JobSave(r)
    \/ \E r \in Runs : JobFinish(r)

SpecJob == InitJob /\ [][NextJob]_vars

\* runs that may overlap
NextOverlap ==
    \/ Tick
    \/ \E r \in Runs : JobStart(r)
    \/ \E r \in Runs : JobCount(r)
    \/ \E r \in Runs : JobSend(r)
    \/ \E r \in Runs : JobSave(r)
    \/ \E r \in Runs : JobFinish(r)

SpecOverlap == InitJob /\ [][NextOverlap]_vars

(* --------------------------- the web service --------------------------- *)

\* who sends a request: a registered user, or nobody (0)
Requesters == DOMAIN users \cup {0}

\* utils.permission.IsManagerOrAdmin.has_permission
IsManagerOrAdmin(req) ==
    /\ req \in DOMAIN users
    /\ (users[req].role = "manager" \/ users[req].role = "admin")

Respond(op, status) ==
    /\ resp' = [op |-> op, status |-> status]
    /\ reqs' = reqs + 1

\* RegisterView.post: RegisterSerializer (username unique, role a choice,
\* default "user"), then User(username, role).save(); is_active and
\* missed_tasks take their defaults
Register(name, role) ==
    /\ reqs < MaxRequests
    /\ IF \E u \in DOMAIN users : users[u].username = name
       THEN /\ Respond("register", 400)
            /\ UNCHANGED <<users, seq>>
       ELSE /\ seq.user < MaxUsers
            /\ users' = Save(users, [pk |-> seq.user + 1, username |-> name,
                   role |-> role, is_active |-> TRUE, missed_tasks |-> 0])
            /\ seq' = [seq EXCEPT !.user = @ + 1]
            /\ Respond("register", 201)
    /\ UNCHANGED <<tasks, clock, jobvars>>

\* TaskCreateSerializer.assigned_to: PrimaryKeyRelatedField over
\* User.objects.filter(role="user")
AssigneeFound(pk) == pk \in DOMAIN users /\ users[pk].role = "user"

\* TaskCreateSerializer.validate_deadline: value < timezone.now() is refused
DeadlineValid(value) == ~(value < clock)

\* TaskCreateSerializer.validate: an assignee with is_active False is refused
AssigneeValidAlways(pk) == TRUE

AssigneeValid(pk) == ~(users[pk].is_active = FALSE)

\* TaskAssignmentView.post: permission IsManagerOrAdmin, the serializer's
\* validation, Task.objects.create(...) with status left at "assigned"
AssignTask(req, assigned_to, deadline) ==
    /\ reqs < MaxRequests
    /\ IF ~IsManagerOrAdmin(req)
       THEN /\ Respond("assign", 403)
            /\ UNCHANGED <<tasks, seq>>
       ELSE IF /\ AssigneeFound(assigned_to)
               /\ DeadlineValid(deadline)
               /\ AssigneeValid(assigned_to)
       THEN /\ tasks' = [k \in DOMAIN tasks \cup {seq.task + 1} |->
                   IF k = seq.task + 1
                   THEN TaskRow(assigned_to, deadline, "assigned")
                   ELSE tasks[k]]
            /\ seq' = [seq EXCEPT !.task = @ + 1]
            /\ Respond("assign", 201)
       ELSE /\ Respond("assign", 400)
            /\ UNCHANGED <<tasks, seq>>
    /\ UNCHANGED <<users, clock, jobvars>>

\* UserUpdateByManager.put: permission IsManagerOrAdmin, User.objects.get,
\* UserSerializer(user, data).save(): role and is_active are set on the
\* instance just loaded and the instance is saved
UserUpdate(req, pk, role, active) ==
    /\ reqs < MaxRequests
    /\ IF ~IsManagerOrAdmin(req)
       THEN /\ Respond("update", 403)
            /\ UNCHANGED users
       ELSE IF pk \notin DOMAIN users
       THEN /\ Respond("update", 404)
            /\ UNCHANGED users
       ELSE /\ users' = Save(users, [Instance(users, pk) EXCEPT
                   !.role = role, !.is_active = active])
            /\ Respond("update", 200)
    /\ UNCHANGED <<tasks, clock, seq, jobvars>>

\* A service with some users registered, in any role, active or not, and no
\* task yet; the clock stands at 1.
Init ==
    /\ clock = 1
    /\ \E n \in 1..MaxUsers :
       \E role \in [1..n -> Roles], active \in [1..n -> BOOLEAN] :
        /\ users = [u \in 1..n |-> UserRow(u, role[u], active[u])]
        /\ seq = [user |-> n, task |-> 0]
    /\ tasks = <<>>
    /\ JobIdle
    /\ HttpIdle

Next ==
    \/ Tick
    \/ \E name \in UserIds, role \in Roles : Register(name, role)
    \/ \E req \in Requesters, pk \in UserIds, deadline \in Times :
          AssignTask(req, pk, deadline)
    \/ \E req \in Requesters, pk \in UserIds, role \in Roles, active \in BOOLEAN :
          UserUpdate(req, pk, role, active)

Spec == Init /\ [][Next]_vars

(* ------------------ the web service: the task ledger ------------------- *)

\* utils.permission.IsUserOrAdmin.has_permission
IsUserOrAdmin(req) ==
    /\ req \in DOMAIN users
    /\ (users[req].role = "user" \/ users[req].role = "admin")

\* UpdateTaskStatus.put: permission IsUserOrAdmin, Task.objects.get(pk=pk),
\* UpdateTaskStatusSerializer(task, data).save().  The response is kept with
\* the requester's role, whether the requester is the assignee of the task,
\* and whether the status written differs from the one read.
UpdateTaskStatus(req, pk, status) ==
    /\ reqs < MaxRequests
    /\ IF ~IsUserOrAdmin(req)
       THEN /\ Respond("status", 403)
            /\ UNCHANGED tasks
       ELSE IF pk \notin DOMAIN tasks
       THEN /\ Respond("status", 404)
            /\ UNCHANGED tasks
       ELSE /\ tasks' = [tasks EXCEPT ![pk].status = status]
            /\ resp' = [op |-> "status", status |-> 200,
                        by |-> users[req].role,
                        own |-> (tasks[pk].assigned_to = req),
                        changed |-> (tasks[pk].status # status)]
            /\ reqs' = reqs + 1
    /\ UNCHANGED <<users, clock, seq, jobvars>>

\* Task.assigned_to = ForeignKey(User, on_delete=models.CASCADE): the tasks
\* left when user pk is deleted
CascadeNone(table, pk) == table

Cascade(table, pk) ==
    [k \in {j \in DOMAIN table : table[j].assigned_to # pk} |-> table[k]]

\* UserDeleteView.delete(request, pk): permission IsManagerOrAdmin,
\* User.objects.get(pk=pk), an admin is never deleted, user.delete().
\* (urlpatterns routes "deleteUser/" with no pk in the path; this is the
\* method as it is written, called with a pk.)
UserDelete(req, pk) ==
    /\ reqs < MaxRequests
    /\ IF ~IsManagerOrAdmin(req)
       THEN /\ Respond("delete", 403)
            /\ UNCHANGED <<users, tasks>>
       ELSE IF pk \notin DOMAIN users
       THEN /\ Respond("delete", 404)
            /\ UNCHANGED <<users, tasks>>
       ELSE IF users[pk].role = "admin"
       THEN /\ Respond("delete", 403)
            /\ UNCHANGED <<users, tasks>>
       ELSE /\ users' = [u \in DOMAIN users \ {pk} |-> users[u]]
            /\ tasks' = Cascade(tasks, pk)
            /\ Respond("delete", 204)
    /\ UNCHANGED <<clock, seq, jobvars>>

\* A service with some users registered, in any role, active or not, each
\* with one open task due at time 1; the clock stands at 1.
InitLedger ==
    /\ clock = 1
    /\ \E n \in 1..MaxUsers :
       \E role \in [1..n -> Roles], active \in [1..n -> BOOLEAN] :
        /\ users = [u \in 1..n |-> UserRow(u, role[u], active[u])]
        /\ tasks = [k \in 1..n |-> TaskRow(k, 1, "assigned")]
        /\ seq = [user |-> n, task |-> n]
    /\ JobIdle
    /\ HttpIdle

TaskIds == 1..(MaxUsers + MaxRequests)

NextLedger ==
    \/ Tick
    \/ \E name \in UserIds, role \in Roles : Register(name, role)
    \/ \E req \in Requesters, pk \in UserIds, deadline \in Times :
          AssignTask(req, pk, deadline)
    \/ \E req \in Requesters, pk \in TaskIds, status \in Statuses :
          UpdateTaskStatus(req, pk, status)
    \/ \E req \in Requesters, pk \in UserIds : UserDelete(req, pk)

SpecLedger == InitLedger /\ [][NextLedger]_vars

(* ------------- the job beside the user-update operation ---------------- *)

\* runs one after the other, while managers and admins update users
NextRace ==
    \/ Tick
    \/ \E r \in Runs : Quiet /\ (\A q \in 1..(r - 1) : pc[q] # "idle") /\ JobStart(r)
    \/ \E r \in Runs : JobCount(r)
    \/ \E r \in Runs : JobSend(r)
    \/ \E r \in Runs : JobSave(r)
    \/ \E r \in Runs : JobFinish(r)
    \/ \E req \in Requesters, pk \in UserIds, role \in Roles, active \in BOOLEAN :
          UserUpdate(req, pk, role, active)

SpecRace == InitJob /\ [][NextRace]_vars

(* ------------------- what the claims speak about ----------------------- *)

Started(r) == pc[r] # "idle"

\* no run started after run r did
Latest(r) == \A q \in Runs \ {r} : pc[q] = "idle" \/ q \in after[r]

\* run b is the run that followed run a
Consecutive(a, b) ==
    /\ a # b
    /\ a \in after[b]
    /\ \A q \in Runs \ {a, b} : q \in after[b] => q \in after[a]

\* the users that were active regular users when run r started
Selected(r) ==
    {u \in DOMAIN atStart[r] :
        atStart[r][u].role = "user" /\ atStart[r][u].is_active}

\* the number of tasks of user u that are open and due strictly before t:
\* all of u's tasks, less the completed ones, less the open ones due at t or
\* later
Overdue(u, t) ==
    LET mine == {k \in DOMAIN tasks : tasks[k].assigned_to = u}
        closed == {k \in mine : tasks[k].status = "completed"}
        notDue == {k \in mine \ closed : tasks[k].deadline >= t}
    IN  Cardinality(mine) - Cardinality(closed) - Cardinality(notDue)

\* the calls of send_mail run r made about user u
MailAbout(r, u) ==
    {i \in 1..Len(mail[r]) : mail[r][i].user = atStart[r][u].username}

SendFailed(r) == {i \in 1..Len(mail[r]) : ~mail[r][i].delivered}

SaveFailed(r) == {i \in 1..Len(stderr[r]) : stderr[r][i][1] = "save"}

Summary(r) == \E i \in 1..Len(stdout[r]) : stdout[r][i] = <<"completed">>

(* ------------------------------ claims --------------------------------- *)

\* C1: every user who is an active regular user when a run starts and has 5
\* or more overdue open tasks at the run's reference time is inactive once
\* the run has ended, and the run called send_mail about that user exactly
\* once.
C1_QualifyingDeactivatedAndNotifiedOnce ==
    \A r \in Runs : Ended(r) =>
        \A u \in Selected(r) : Overdue(u, now[r]) >= Threshold =>
            /\ users[u].is_active = FALSE
            /\ Cardinality(MailAbout(r, u)) = 1

\* C2: a user with fewer than 5 overdue open tasks at a run's reference time
\* is not written by the run, no mail of the run is about that user, and the
\* user's active flag is what it was when the run started.
C2_BelowThresholdUntouched ==
    \A r \in Runs : Started(r) =>
        \A u \in DOMAIN atStart[r] : Overdue(u, now[r]) < Threshold =>
            /\ u \notin wrote[r]
            /\ MailAbout(r, u) = {}
            /\ Latest(r) => users[u].is_active = atStart[r][u].is_active

C2_Witness ==
    \E r \in Runs : \E u \in Selected(r) :
        /\ pc[r] = "done"
        /\ u \in DOMAIN counted[r]
        /\ Overdue(u, now[r]) = Threshold - 1
        /\ users[u].is_active

\* C3: the count a run computes for a user is the number of that user's
\* tasks with status assigned and deadline strictly before the now of the
\* run: tasks due at now, completed tasks and other users' tasks are left
\* out; 4 overdue open tasks and 3 overdue completed ones give 4 and no
\* deactivation.
C3_MissedCountIsOverdueOpenTasks ==
    \A r \in Runs :
        /\ \A u \in DOMAIN counted[r] :
            /\ counted[r][u] = Overdue(u, now[r])
            /\ counted[r][u] = Threshold - 1 => u \notin wrote[r]
        /\ pc[r] \in {"send", "save"} =>
              missed_count[r] = Overdue(cur[r].pk, now[r])

C3_Witness ==
    \E r \in Runs : \E u \in DOMAIN counted[r] :
        /\ pc[r] = "done"
        /\ clock > now[r]
        /\ counted[r][u] = 4
        /\ users[u].is_active
        /\ Cardinality({k \in DOMAIN tasks :
              /\ tasks[k].assigned_to = u
              /\ tasks[k].status = "completed"
              /\ tasks[k].deadline < now[r]}) = 3
        /\ \E k \in DOMAIN tasks :
              /\ tasks[k].assigned_to = u
              /\ tasks[k].status = "assigned"
              /\ tasks[k].deadline = now[r]
        /\ \E k \in DOMAIN tasks :
              /\ tasks[k].assigned_to # u
              /\ tasks[k].status = "assigned"
              /\ tasks[k].deadline < now[r]

\* C4: a user who is inactive, or an admin or a manager, when a run starts
\* is not evaluated by the run, whatever that user's overdue tasks: the run
\* sends no mail about the user and does not write the user's row.
C4_UnselectedUntouched ==
    \A r \in Runs : Started(r) =>
        \A u \in DOMAIN atStart[r] :
            (~atStart[r][u].is_active \/ atStart[r][u].role \in {"admin", "manager"})
            => /\ u \notin DOMAIN counted[r]
               /\ MailAbout(r, u) = {}
               /\ u \notin wrote[r]
               /\ Latest(r) => users[u] = atStart[r][u]

C4_Witness ==
    \E r \in Runs : \E u, v \in DOMAIN atStart[r] :
        /\ pc[r] = "done"
        /\ atStart[r][u].role = "user" /\ ~atStart[r][u].is_active
        /\ Overdue(u, now[r]) >= Threshold
        /\ v \in wrote[r]

\* C5: when send_mail raised for a user, the run is not aborted: once it has
\* ended that user is inactive, every selected user was evaluated and every
\* selected user with 5 or more overdue open tasks is inactive.
C5_SendFailureDoesNotAbort ==
    \A r \in Runs : (Ended(r) /\ SendFailed(r) # {}) =>
        /\ pc[r] = "done"
        /\ \A i \in SendFailed(r) : \A u \in Selected(r) :
              atStart[r][u].username = mail[r][i].user => ~users[u].is_active
        /\ Selected(r) \subseteq DOMAIN counted[r]
        /\ \A u \in Selected(r) :
              Overdue(u, now[r]) >= Threshold => ~users[u].is_active

\* C6: when user.save() raised for one user, the run goes on with the other
\* selected users and ends with its summary line.
C6_SaveFailureDoesNotAbort ==
    \A r \in Runs : (Ended(r) /\ SaveFailed(r) # {}) =>
        /\ Summary(r)
        /\ Selected(r) \subseteq DOMAIN counted[r]
        /\ \A u \in Selected(r) :
              (Overdue(u, now[r]) >= Threshold /\ <<"save", u>> \notin
                  {stderr[r][i] : i \in 1..Len(stderr[r])})
              => ~users[u].is_active

\* what both forms of C7 say of the users the first run deactivated, and of
\* the active flag
C7Common(a, b) ==
    /\ wrote[a] \cap Selected(b) = {}
    /\ wrote[a] \cap DOMAIN counted[b] = {}
    /\ wrote[a] \cap wrote[b] = {}
    /\ \A u \in wrote[a] : MailAbout(b, u) = {}
    /\ \A r \in Runs : Started(r) =>
          \A u \in DOMAIN atStart[r] :
              ~atStart[r][u].is_active => ~users[u].is_active

\* C7 as stated: of two consecutive runs, the second selects a strict subset
\* of the users the first selected; it does not select, notify about or write
\* a user the first deactivated; the job never sets an active flag to true.
C7_SecondRunStrictSubset ==
    \A a, b \in Runs : (Consecutive(a, b) /\ Started(b)) =>
        /\ Selected(b) \subseteq Selected(a)
        /\ Selected(b) # Selected(a)
        /\ C7Common(a, b)

\* C7 as amended: the second run selects the users the first selected less
\* those the first deactivated (a strict subset exactly when the first run
\* deactivated somebody); the rest as stated.
C7_SecondRunSubset ==
    \A a, b \in Runs : (Consecutive(a, b) /\ Started(b)) =>
        /\ Selected(b) = Selected(a) \ wrote[a]
        /\ wrote[a] \subseteq Selected(a)
        /\ C7Common(a, b)

C7_Witness ==
    \E a, b \in Runs :
        /\ Consecutive(a, b)
        /\ Ended(b)
        /\ wrote[a] # {}
        /\ Selected(b) # {}
        /\ DOMAIN counted[b] = Selected(b)

\* C8: a step of the job changes no task, creates and deletes no user, and
\* changes no user's role, username or missed_tasks; the only change is an
\* active flag set to false, of a user with 5 or more overdue open tasks.
C8_JobWritesOnlyActiveFlag ==
    [][/\ tasks' = tasks
       /\ DOMAIN users' = DOMAIN users
       /\ \A u \in DOMAIN users :
            /\ users'[u].role = users[u].role
            /\ users'[u].username = users[u].username
            /\ users'[u].missed_tasks = users[u].missed_tasks
            /\ users'[u].is_active # users[u].is_active =>
                  /\ users'[u].is_active = FALSE
                  /\ \E r \in Runs : Overdue(u, now[r]) >= Threshold]_vars

C8_Witness ==
    \E r \in Runs : \E u \in wrote[r] :
        /\ Ended(r)
        /\ atStart[r][u].is_active
        /\ ~users[u].is_active
        /\ users[u].role = "user"

\* C9: when two runs overlap, once both have ended every user who was
\* selected by a run with 5 or more overdue open tasks is inactive, and every
\* other user's active flag is what it was.
C9_OverlapSameAsSingleRun ==
    (\A r \in Runs : Ended(r)) =>
        \A u \in DOMAIN users :
            IF \E r \in Runs : u \in Selected(r) /\ Overdue(u, now[r]) >= Threshold
            THEN ~users[u].is_active
            ELSE \A r \in Runs : users[u].is_active = atStart[r][u].is_active

\* C10: whenever a task is created, it is one task with one assignee who, in
\* the state the request was served in, exists, has role user and is active,
\* and its deadline is not before the clock of that state; so a request that
\* names an inactive user, a manager or admin, or a past deadline creates
\* none.
C10_TasksCreatedForActiveRegularUsers ==
    [][/\ Cardinality(DOMAIN tasks' \ DOMAIN tasks) <= 1
       /\ \A k \in DOMAIN tasks' \ DOMAIN tasks :
            /\ tasks'[k].assigned_to \in DOMAIN users
            /\ users[tasks'[k].assigned_to].role = "user"
            /\ users[tasks'[k].assigned_to].is_active = TRUE
            /\ tasks'[k].deadline >= clock
            /\ tasks'[k].status = "assigned"
            /\ resp'.op = "assign" /\ resp'.status = 201]_vars

\* a task was created and the last request to assign was refused
C10_Witness ==
    /\ resp = [op |-> "assign", status |-> 400]
    /\ tasks # <<>>

\* C11: a status-update request changes a task's status only when the
\* requester is the assignee of the task or an admin; a request from a
\* regular user who is not the assignee, or from a manager, leaves the
\* status as it was.
C11_StatusChangedByAssigneeOrAdmin ==
    (resp.op = "status" /\ resp.status = 200 /\ resp.changed)
        => (resp.own \/ resp.by = "admin")

\* C12: every task references an existing user, and a step that deletes a
\* user removes exactly the tasks assigned to that user and alters no other
\* task.
C12_TasksReferenceUsers ==
    [][/\ \A k \in DOMAIN tasks : tasks[k].assigned_to \in DOMAIN users
       /\ \A k \in DOMAIN tasks' : tasks'[k].assigned_to \in DOMAIN users'
       /\ \A u \in DOMAIN users \ DOMAIN users' :
            /\ DOMAIN tasks' = {k \in DOMAIN tasks : tasks[k].assigned_to # u}
            /\ \A k \in DOMAIN tasks' : tasks'[k] = tasks[k]]_vars

\* a user with a task was deleted while another user's task stayed
C12_Witness ==
    /\ resp = [op |-> "delete", status |-> 204]
    /\ Cardinality(DOMAIN tasks) < seq.task
    /\ tasks # <<>>

\* C13: when a run saves the deactivation of a user, the save changes of
\* that user's row the active flag only; the role an update committed after
\* the run read its list of users is still the user's role after the save.
C13_JobSaveKeepsCommittedRole ==
    [][\A r \in Runs : \A u \in wrote'[r] \ wrote[r] :
            /\ users'[u].role = users[u].role
            /\ users'[u] = [users[u] EXCEPT !.is_active = FALSE]]_vars

\* C14: a user deactivated by one run and, with the same tasks, found an
\* active regular user again by the run that follows it is deactivated by
\* that run once it has ended, and that run called send_mail about the user
\* exactly once.
C14_ReactivatedUserDeactivatedAgain ==
    \A a \in Runs, b \in Runs : (Consecutive(a, b) /\ Ended(b)) =>
        \A u \in wrote[a] \cap Selected(b) :
            /\ u \in wrote[b]
            /\ Cardinality(MailAbout(b, u)) = 1

====
